---- MODULE Spec2Model ----
(***************************************************************************)
(* A model of label_videos.py: the row loop of main() and the single-video *)
(* pipeline process_video(), with the pure helpers (label lookup, filename *)
(* sanitizer, output naming) computed as the code computes them.           *)
(*                                                                         *)
(* Strings are sequences of characters; a character is a one-character     *)
(* TLA+ string, except "U+00E9" which stands for the single non-ASCII      *)
(* letter e-acute (str.isalnum() is true of it).                           *)
(* A time is a float: finite values are counted in hundredths of a second, *)
(* and NaN and +infinity are kept as values of their own because Python's  *)
(* float() accepts "nan" and "inf".                                        *)
(***************************************************************************)
EXTENDS Integers, Sequences, FiniteSets, TLC

\* ------------------------------------------------------------------ bounds
\* rows in the input listing
MaxRows == 2
\* frames a source video can yield
MaxFrames == 4
\* length of the strings handed to the sanitizer on its own
MaxLen == 3

\* ------------------------------------------------------- program constants
\* fps = 30 when the source reports 0
DefaultFps == 30
\* len(row) != 6
RowFields == 6

\* ---------------------------------------------------------------- strings
Digits == {"0", "1", "2", "3", "4", "5", "6", "7", "8", "9"}
AsciiLetters == {"a", "b", "c", "d", "e", "f", "g", "h", "i", "j", "k", "l", "m",
                 "n", "o", "p", "q", "r", "s", "t", "u", "v", "w", "x", "y", "z",
                 "I", "L", "U"}
\* the characters of the regular expression class [A-Za-z0-9_.]
AsciiSafe == AsciiLetters \cup Digits \cup {"_", "."}

\* str.isalnum() for one character: Unicode letters and digits, not only ASCII
IsAlnum(c) == c \in AsciiLetters \cup Digits \cup {"U+00E9"}

DigitVal(c) ==
    CASE c = "0" -> 0 [] c = "1" -> 1 [] c = "2" -> 2 [] c = "3" -> 3 [] c = "4" -> 4
      [] c = "5" -> 5 [] c = "6" -> 6 [] c = "7" -> 7 [] c = "8" -> 8 [] c = "9" -> 9

DigitChar(d) ==
    CASE d = 0 -> "0" [] d = 1 -> "1" [] d = 2 -> "2" [] d = 3 -> "3" [] d = 4 -> "4"
      [] d = 5 -> "5" [] d = 6 -> "6" [] d = 7 -> "7" [] d = 8 -> "8" [] d = 9 -> "9"

\* str(n) for a natural number
RECURSIVE DecStr(_)
DecStr(n) == IF n < 10 THEN <<DigitChar(n)>> ELSE DecStr(n \div 10) \o <<DigitChar(n % 10)>>

\* str.strip() restricted to the space character
RECURSIVE StripL(_)
StripL(s) == IF s # <<>> /\ Head(s) = " " THEN StripL(Tail(s)) ELSE s

RECURSIVE StripR(_)
StripR(s) == IF s # <<>> /\ s[Len(s)] = " " THEN StripR(SubSeq(s, 1, Len(s) - 1)) ELSE s

\* ------------------------------------------------------- label resolution
\* the literal after int() has dropped surrounding whitespace
IntLiteral(s) == StripL(StripR(s))

IntMagnitude(s) ==
    LET t == IntLiteral(s) IN IF t # <<>> /\ Head(t) \in {"-", "+"} THEN Tail(t) ELSE t

\* int(numeric_label_str) does not raise ValueError
IntParses(s) ==
    /\ IntMagnitude(s) # <<>>
    /\ \A k \in 1..Len(IntMagnitude(s)) : IntMagnitude(s)[k] \in Digits

RECURSIVE DigitsValue(_)
DigitsValue(d) ==
    IF d = <<>> THEN 0 ELSE 10 * DigitsValue(SubSeq(d, 1, Len(d) - 1)) + DigitVal(d[Len(d)])

\* int(numeric_label_str), where it parses
IntValue(s) ==
    LET t == IntLiteral(s) IN
    IF Head(t) = "-" THEN 0 - DigitsValue(IntMagnitude(s)) ELSE DigitsValue(IntMagnitude(s))

LabelTable ==
    [c \in 0..9 |->
        CASE c = 0 -> <<"w", "a", "l", "k">>
          [] c = 1 -> <<"f", "a", "l", "l">>
          [] c = 2 -> <<"f", "a", "l", "l", "e", "n">>
          [] c = 3 -> <<"s", "i", "t", "_", "d", "o", "w", "n">>
          [] c = 4 -> <<"s", "i", "t", "t", "i", "n", "g">>
          [] c = 5 -> <<"l", "i", "e", "_", "d", "o", "w", "n">>
          [] c = 6 -> <<"l", "y", "i", "n", "g">>
          [] c = 7 -> <<"s", "t", "a", "n", "d", "_", "u", "p">>
          [] c = 8 -> <<"s", "t", "a", "n", "d", "i", "n", "g">>
          [] c = 9 -> <<"o", "t", "h", "e", "r">>]

UnknownPrefix == <<"U", "n", "k", "n", "o", "w", "n", "_", "L", "a", "b", "e", "l", "_">>
InvalidPrefix == <<"I", "n", "v", "a", "l", "i", "d", "_", "L", "a", "b", "e", "l", "_">>

\* a mutant of ResolveLabel: the table is looked up from 1, so code 0 is unknown
ResolveLabel_SkipZero(map, raw) ==
    IF IntParses(raw)
    THEN IF IntValue(raw) \in (DOMAIN map) \ {0}
         THEN [tag |-> map[IntValue(raw)], warn |-> "none"]
         ELSE [tag |-> UnknownPrefix \o raw, warn |-> "label_not_in_map"]
    ELSE [tag |-> InvalidPrefix \o raw, warn |-> "label_not_integer"]

\* lines 33-40: the tag written on the frames, and the warning logged with it
ResolveLabel(map, raw) ==
    IF IntParses(raw)
    THEN IF IntValue(raw) \in DOMAIN map
         THEN [tag |-> map[IntValue(raw)], warn |-> "none"]
         ELSE [tag |-> UnknownPrefix \o raw, warn |-> "label_not_in_map"]
    ELSE [tag |-> InvalidPrefix \o raw, warn |-> "label_not_integer"]

\* ------------------------------------------------------ filename sanitizer
SanitizeChar(c) == IF IsAlnum(c) \/ c \in {" ", ".", "_"} THEN c ELSE "_"

ReplaceSpace(c) == IF c = " " THEN "_" ELSE c

\* a mutant of sanitize_filename_component: the trailing .replace(' ', '_') is lost
sanitize_keep_spaces(component) ==
    [k \in 1..Len(component) |-> SanitizeChar(component[k])]

sanitize_filename_component(component) ==
    [k \in 1..Len(component) |-> ReplaceSpace(SanitizeChar(component[k]))]

\* ------------------------------------------------------------------ floats
Num(h) == [kind |-> "num", h |-> h]
NaN == [kind |-> "nan", h |-> 0]
Inf == [kind |-> "inf", h |-> 0]
NotAFloat == [kind |-> "error", h |-> 0]

\* the time fields a row can hold
TimeStrs == {"0", "0.5", "1", "1.04", "2", "-1", "abc", "nan", "inf"}

\* float(start_str): the value, or NotAFloat where float() raises ValueError
ParseFloat(s) ==
    CASE s = "0" -> Num(0)
      [] s = "0.5" -> Num(50)
      [] s = "1" -> Num(100)
      [] s = "1.04" -> Num(104)
      [] s = "2" -> Num(200)
      [] s = "-1" -> Num(0 - 100)
      [] s = "nan" -> NaN
      [] s = "inf" -> Inf
      [] OTHER -> NotAFloat

\* a < b on floats: every comparison with NaN is false
FloatLt(a, b) ==
    /\ a.kind # "nan" /\ b.kind # "nan"
    /\ \/ a.kind = "num" /\ b.kind = "inf"
       \/ a.kind = "num" /\ b.kind = "num" /\ a.h < b.h

\* a >= b on floats
FloatGe(a, b) ==
    /\ a.kind # "nan" /\ b.kind # "nan"
    /\ ~FloatLt(a, b)

\* int(sec * fps) for fps > 0: "ValueError" on NaN, "OverflowError" on infinity
FrameOf(sec, fps) ==
    CASE sec.kind = "nan" -> [exc |-> "ValueError", v |-> 0]
      [] sec.kind = "inf" -> [exc |-> "OverflowError", v |-> 0]
      [] OTHER -> [exc |-> "none", v |-> (sec.h * fps) \div 100]

\* f"{sec:.1f}" for a finite sec >= 0 whose hundredths digit is not 5 (no ties)
Format1(sec) ==
    LET tenths == (sec.h + 5) \div 10
    IN DecStr(tenths \div 10) \o <<".">> \o <<DigitChar(tenths % 10)>>

\* ------------------------------------------------------------ output naming
LastIndexOf(s, c) ==
    LET hits == {k \in 1..Len(s) : s[k] = c}
    IN IF hits = {} THEN 0 ELSE CHOOSE k \in hits : \A j \in hits : j <= k

\* os.path.basename(video_path)
Basename(p) == SubSeq(p, LastIndexOf(p, "/") + 1, Len(p))

\* os.path.splitext(name)[0]: the extension starts at the last dot, leading dots aside
SplitExtRoot(name) ==
    LET d == LastIndexOf(name, ".")
    IN IF d > 0 /\ \E k \in 1..(d - 1) : name[k] # "."
       THEN SubSeq(name, 1, d - 1)
       ELSE name

NameSuffix == <<".", "m", "p", "4">>

\* a mutant of OutputFilename: the camera is left out of the name
OutputFilename_NoCam(base, subject, cam, tag, start_sec, end_sec) ==
    base \o <<"_">> \o sanitize_filename_component(subject)
         \o <<"_">> \o sanitize_filename_component(tag)
         \o <<"_">> \o Format1(start_sec) \o <<"s", "_">> \o Format1(end_sec) \o <<"s">>
         \o NameSuffix

\* lines 63-67: the output file's name inside the run's output directory
OutputFilename(base, subject, cam, tag, start_sec, end_sec) ==
    base \o <<"_">> \o sanitize_filename_component(subject)
         \o <<"_">> \o sanitize_filename_component(cam)
         \o <<"_">> \o sanitize_filename_component(tag)
         \o <<"_">> \o Format1(start_sec) \o <<"s", "_">> \o Format1(end_sec) \o <<"s">>
         \o NameSuffix

\* ------------------------------------------------------------ frame policy
\* a mutant of IsInLabeledSegment: the window is taken half-open
IsInLabeledSegment_HalfOpen(sf, idx, ef) == sf <= idx /\ idx < ef

\* a mutant of IsInLabeledSegment: the first frame of the window is left out
IsInLabeledSegment_StrictStart(sf, idx, ef) == sf < idx /\ idx <= ef

\* line 93: start_frame <= frame_idx <= end_frame
IsInLabeledSegment(sf, idx, ef) == sf <= idx /\ idx <= ef

\* a mutant of FrameIsWritten: the clip_only test is lost, only the segment is written
FrameIsWritten_SegmentOnly(clip, in_segment) == in_segment

\* lines 105-111: whether out.write(frame) is reached
FrameIsWritten(clip, in_segment) == IF clip THEN in_segment ELSE TRUE

\* a mutant of FinishLog: an empty result is reported as an error
FinishLog_Error(written_count) ==
    IF written_count > 0
    THEN [level |-> "INFO", msg |-> "saved", row |-> 0]
    ELSE [level |-> "ERROR", msg |-> "no_frames", row |-> 0]

\* lines 118-121: the line logged when the frame loop has ended
FinishLog(written_count) ==
    IF written_count > 0
    THEN [level |-> "INFO", msg |-> "saved", row |-> 0]
    ELSE [level |-> "WARNING", msg |-> "no_frames", row |-> 0]

\* a mutant of AfterRowError: an exception of one row ends the row loop
AfterRowError_Abort == "done"

\* lines 179-182: the row's except clauses log and the for loop goes on
AfterRowError == "rows"

\* lines 179-182: the diagnostic main() logs for an exception of row i
HandlerLog(exc, i) ==
    IF exc = "ValueError"
    THEN [level |-> "WARNING", msg |-> "conversion_error", row |-> i]
    ELSE [level |-> "ERROR", msg |-> "unexpected_error", row |-> i]

\* ------------------------------------------------------------------- state
VARIABLES
    LABEL_MAP,          \* the module-level label table
    clip_only,          \* args.clip_only, fixed for the run
    nrows,              \* rows the csv reader will yield
    rowIdx,             \* rows read so far: i + 1 of the row in hand
    row,                \* the row in hand
    pc,                 \* where the run is: "rows", "pv_start", "pv_exists",
                        \* "pv_opened", "pv_loop", "pv_end", "done"
    start_sec, end_sec, \* process_video's arguments
    label_to_write, fps, start_frame, end_frame, output_video_path,
    frame_idx, frames_written,
    open_handles,       \* the captures and writers opened and not yet released
    out_files,          \* the rows (i + 1) whose output file was created
    log,                \* the diagnostics logged for the row in hand
    frames_read,        \* per frame read of this record: its index, overlay drawn or not
    written,            \* per out.write of this record: the frame's index and overlay
    outcome,            \* how the row in hand ended
    san_in, san_out, san_twice,     \* the sanitizer applied once and twice to san_in
    rec_a, rec_b, path_a, path_b,   \* two records and the names built for them
    applied                         \* the helper under check has been applied

runVars == <<LABEL_MAP, clip_only, nrows, rowIdx, row, pc, start_sec, end_sec,
             label_to_write, fps, start_frame, end_frame, output_video_path,
             frame_idx, frames_written, open_handles, out_files, log, frames_read,
             written, outcome>>

nameVars == <<san_in, san_out, san_twice, rec_a, rec_b, path_a, path_b, applied>>

vars == <<runVars, nameVars>>

\* ------------------------------------------------------------------ inputs
\* the label fields a row can hold
LabelStrs == { <<"7">>, <<"0">>, <<"9">>, <<"1", "0">>, <<"-", "1">>, <<" ", "3">>,
               <<"x">>, <<>>, <<"7", ".", "0">> }

\* the frame rates cap.get(CAP_PROP_FPS) can report
FpsValues == {0, 1, 2}

VideoPath == <<"d", "/", "v", ".", "x">>

\* six-field rows: every label with one valid time range, and every pair of
\* time fields with one label
GoodRows ==
    [n : {RowFields}, path : {VideoPath}, label : LabelStrs, start : {"0"}, end : {"1"},
     subject : {<<"s", " ", "1">>}, cam : {<<"c", "-", "2">>}]
    \cup
    [n : {RowFields}, path : {VideoPath}, label : {<<"7">>}, start : TimeStrs,
     end : TimeStrs, subject : {<<"s", " ", "1">>}, cam : {<<"c", "-", "2">>}]

\* a row with a field missing or a field too many: its fields are never unpacked
ShortRow == [n |-> RowFields - 1, path |-> VideoPath, label |-> <<"7">>, start |-> "0",
             end |-> "1", subject |-> <<"s", " ", "1">>, cam |-> <<>>]
LongRow == [ShortRow EXCEPT !.n = RowFields + 1, !.cam = <<"c", "-", "2">>]

Rows == GoodRows \cup {ShortRow, LongRow}

NoRow == [ShortRow EXCEPT !.n = 0]

Handle(kind) == [rec |-> rowIdx, kind |-> kind]

LogLine(level, msg, i) == [level |-> level, msg |-> msg, row |-> i]

NamesIdle ==
    /\ san_in = <<>> /\ san_out = <<>> /\ san_twice = <<>>
    /\ rec_a = NoRow /\ rec_b = NoRow /\ path_a = <<>> /\ path_b = <<>>
    /\ applied = FALSE

\* process_video's locals and the record's observations before the call
NoRecord ==
    /\ start_sec = Num(0) /\ end_sec = Num(0)
    /\ label_to_write = <<>> /\ fps = 0 /\ start_frame = 0 /\ end_frame = 0
    /\ output_video_path = <<>> /\ frame_idx = 0 /\ frames_written = 0
    /\ frames_read = <<>> /\ written = <<>>

\* the same, as the state a newly read row starts from
ClearRecord ==
    /\ start_sec' = Num(0) /\ end_sec' = Num(0)
    /\ label_to_write' = <<>> /\ fps' = 0 /\ start_frame' = 0 /\ end_frame' = 0
    /\ output_video_path' = <<>> /\ frame_idx' = 0 /\ frames_written' = 0
    /\ frames_read' = <<>> /\ written' = <<>>

RunIdle ==
    /\ LABEL_MAP = LabelTable
    /\ rowIdx = 0 /\ row = NoRow /\ pc = "rows"
    /\ NoRecord
    /\ open_handles = {} /\ out_files = {} /\ log = <<>>
    /\ outcome = "none"

\* main() up to line 146: the listing exists, the output directory exists
Init ==
    /\ RunIdle
    /\ clip_only \in BOOLEAN
    /\ nrows \in 0..MaxRows
    /\ NamesIdle

\* ------------------------------------------------------------ main(), rows
\* the except clauses of lines 179-182, reached with exception exc raised in row
\* rowIdx' while `held` are the handles the raising frame still refers to. No
\* release is called on this path: whether the interpreter has finalized the
\* unreferenced capture and writer before the next row is read is up to it.
Caught(exc, i, held, lines) ==
    /\ log' = Append(lines, HandlerLog(exc, i))
    /\ \E finalized \in BOOLEAN :
          open_handles' = IF finalized THEN open_handles \ held ELSE open_handles
    /\ outcome' = "raised"
    /\ pc' = AfterRowError

\* Reading a row starts a new record: the locals of the last process_video call
\* are gone and the record's observations start empty.

\* lines 148-150
SkipColumns ==
    /\ pc = "rows" /\ rowIdx < nrows
    /\ \E r \in Rows :
          /\ r.n # RowFields
          /\ row' = r
    /\ rowIdx' = rowIdx + 1
    /\ log' = <<LogLine("WARNING", "bad_columns", rowIdx + 1)>>
    /\ outcome' = "skipped"
    /\ ClearRecord
    /\ UNCHANGED <<LABEL_MAP, clip_only, nrows, pc, open_handles, out_files>>
    /\ UNCHANGED nameVars

\* lines 170-171 raise ValueError, caught at line 179
SkipConversion ==
    /\ pc = "rows" /\ rowIdx < nrows
    /\ \E r \in Rows :
          /\ r.n = RowFields
          /\ ParseFloat(r.start) = NotAFloat \/ ParseFloat(r.end) = NotAFloat
          /\ row' = r
    /\ rowIdx' = rowIdx + 1
    /\ Caught("ValueError", rowIdx + 1, {}, <<>>)
    /\ ClearRecord
    /\ UNCHANGED <<LABEL_MAP, clip_only, nrows, out_files>>
    /\ UNCHANGED nameVars

\* lines 173-175
SkipTimes ==
    /\ pc = "rows" /\ rowIdx < nrows
    /\ \E r \in Rows :
          /\ r.n = RowFields
          /\ ParseFloat(r.start) # NotAFloat /\ ParseFloat(r.end) # NotAFloat
          /\ \/ FloatLt(ParseFloat(r.start), Num(0))
             \/ FloatLt(ParseFloat(r.end), Num(0))
             \/ FloatLt(ParseFloat(r.end), ParseFloat(r.start))
          /\ row' = r
    /\ rowIdx' = rowIdx + 1
    /\ log' = <<LogLine("WARNING", "invalid_times", rowIdx + 1)>>
    /\ outcome' = "skipped"
    /\ ClearRecord
    /\ UNCHANGED <<LABEL_MAP, clip_only, nrows, pc, open_handles, out_files>>
    /\ UNCHANGED nameVars

\* line 177: the row passes lines 148-175 and process_video is called
CallProcessVideo ==
    /\ pc = "rows" /\ rowIdx < nrows
    /\ \E r \in Rows :
          /\ r.n = RowFields
          /\ ParseFloat(r.start) # NotAFloat /\ ParseFloat(r.end) # NotAFloat
          /\ ~ \/ FloatLt(ParseFloat(r.start), Num(0))
               \/ FloatLt(ParseFloat(r.end), Num(0))
               \/ FloatLt(ParseFloat(r.end), ParseFloat(r.start))
          /\ row' = r
          /\ start_sec' = ParseFloat(r.start)
          /\ end_sec' = ParseFloat(r.end)
    /\ rowIdx' = rowIdx + 1
    /\ log' = <<>>
    /\ outcome' = "processing"
    /\ pc' = "pv_start"
    /\ label_to_write' = <<>> /\ fps' = 0 /\ start_frame' = 0 /\ end_frame' = 0
    /\ output_video_path' = <<>> /\ frame_idx' = 0 /\ frames_written' = 0
    /\ frames_read' = <<>> /\ written' = <<>>
    /\ UNCHANGED <<LABEL_MAP, clip_only, nrows, open_handles, out_files>>
    /\ UNCHANGED nameVars

\* the reader is exhausted: the for loop and main() end
EndRun ==
    /\ pc = "rows" /\ rowIdx = nrows
    /\ pc' = "done"
    /\ UNCHANGED <<LABEL_MAP, clip_only, nrows, rowIdx, row, start_sec, end_sec,
                   label_to_write, fps, start_frame, end_frame, output_video_path,
                   frame_idx, frames_written, open_handles, out_files, log,
                   frames_read, written, outcome>>
    /\ UNCHANGED nameVars

\* ----------------------------------------------------------- process_video
\* lines 33-40
ResolveStep ==
    /\ pc = "pv_start"
    /\ LET r == ResolveLabel(LABEL_MAP, row.label) IN
          /\ label_to_write' = r.tag
          /\ log' = IF r.warn = "none" THEN log
                    ELSE Append(log, LogLine("WARNING", r.warn, 0))
    /\ pc' = "pv_exists"
    /\ UNCHANGED <<LABEL_MAP, clip_only, nrows, rowIdx, row, start_sec, end_sec,
                   fps, start_frame, end_frame, output_video_path, frame_idx,
                   frames_written, open_handles, out_files, frames_read, written,
                   outcome>>
    /\ UNCHANGED nameVars

\* lines 42-44: os.path.exists(video_path) is false
SourceMissing ==
    /\ pc = "pv_exists"
    /\ log' = Append(log, LogLine("ERROR", "video_not_found", 0))
    /\ outcome' = "not_found"
    /\ pc' = "rows"
    /\ UNCHANGED <<LABEL_MAP, clip_only, nrows, rowIdx, row, start_sec, end_sec,
                   label_to_write, fps, start_frame, end_frame, output_video_path,
                   frame_idx, frames_written, open_handles, out_files, frames_read,
                   written>>
    /\ UNCHANGED nameVars

\* lines 46-49: the capture is constructed and is not opened
SourceUnopenable ==
    /\ pc = "pv_exists"
    /\ log' = Append(log, LogLine("ERROR", "video_not_opened", 0))
    /\ outcome' = "source_unopenable"
    /\ pc' = "rows"
    /\ UNCHANGED <<LABEL_MAP, clip_only, nrows, rowIdx, row, start_sec, end_sec,
                   label_to_write, fps, start_frame, end_frame, output_video_path,
                   frame_idx, frames_written, open_handles, out_files, frames_read,
                   written>>
    /\ UNCHANGED nameVars

\* lines 46-47: the capture is opened
SourceOpened ==
    /\ pc = "pv_exists"
    /\ open_handles' = open_handles \cup {Handle("cap")}
    /\ pc' = "pv_opened"
    /\ UNCHANGED <<LABEL_MAP, clip_only, nrows, rowIdx, row, start_sec, end_sec,
                   label_to_write, fps, start_frame, end_frame, output_video_path,
                   frame_idx, frames_written, out_files, log, frames_read, written,
                   outcome>>
    /\ UNCHANGED nameVars

\* lines 51-54: the frame rate used, and the log after it was read
FpsUsed(reported) == IF reported = 0 THEN DefaultFps ELSE reported

FpsLog(reported, lines) ==
    IF reported = 0 THEN Append(lines, LogLine("ERROR", "no_fps", 0)) ELSE lines

\* the first exception lines 59-60 raise, "none" if neither does
WindowError(f) ==
    IF FrameOf(start_sec, f).exc # "none" THEN FrameOf(start_sec, f).exc
    ELSE FrameOf(end_sec, f).exc

\* lines 51-60: int(start_sec * fps) or int(end_sec * fps) raises; the exception
\* leaves process_video with the capture open and is caught at lines 179-182
WindowRaises ==
    /\ pc = "pv_opened"
    /\ \E reported \in FpsValues :
          /\ WindowError(FpsUsed(reported)) # "none"
          /\ fps' = FpsUsed(reported)
          /\ Caught(WindowError(FpsUsed(reported)), rowIdx, {Handle("cap")},
                    FpsLog(reported, log))
    /\ UNCHANGED <<LABEL_MAP, clip_only, nrows, rowIdx, row, start_sec, end_sec,
                   label_to_write, start_frame, end_frame, output_video_path,
                   frame_idx, frames_written, out_files, frames_read, written>>
    /\ UNCHANGED nameVars

\* lines 51-68: the locals set before the writer is constructed
Setup(reported) ==
    /\ fps' = FpsUsed(reported)
    /\ start_frame' = FrameOf(start_sec, FpsUsed(reported)).v
    /\ end_frame' = FrameOf(end_sec, FpsUsed(reported)).v
    /\ output_video_path' =
          OutputFilename(SplitExtRoot(Basename(row.path)), row.subject, row.cam,
                         label_to_write, start_sec, end_sec)

\* lines 51-78: the writer is not opened; the capture is released
WriterUnopenable ==
    /\ pc = "pv_opened"
    /\ \E reported \in FpsValues :
          /\ WindowError(FpsUsed(reported)) = "none"
          /\ Setup(reported)
          /\ log' = Append(FpsLog(reported, log), LogLine("ERROR", "writer_not_opened", 0))
    /\ open_handles' = open_handles \ {Handle("cap")}
    /\ outcome' = "writer_unopenable"
    /\ pc' = "rows"
    /\ UNCHANGED <<LABEL_MAP, clip_only, nrows, rowIdx, row, start_sec, end_sec,
                   label_to_write, frame_idx, frames_written, out_files, frames_read,
                   written>>
    /\ UNCHANGED nameVars

\* lines 51-87: the writer is opened on the output file and the loop is entered
WriterOpened ==
    /\ pc = "pv_opened"
    /\ \E reported \in FpsValues :
          /\ WindowError(FpsUsed(reported)) = "none"
          /\ Setup(reported)
          /\ log' = FpsLog(reported, log) \o
                    <<LogLine("INFO", "processing", 0),
                      LogLine("INFO", IF clip_only THEN "clip_only" ELSE "full", 0)>>
    /\ open_handles' = open_handles \cup {Handle("out")}
    /\ out_files' = out_files \cup {rowIdx}
    /\ frame_idx' = 0
    /\ frames_written' = 0
    /\ frames_read' = <<>>
    /\ written' = <<>>
    /\ pc' = "pv_loop"
    /\ UNCHANGED <<LABEL_MAP, clip_only, nrows, rowIdx, row, start_sec, end_sec,
                   label_to_write, outcome>>
    /\ UNCHANGED nameVars

\* lines 89-113 with ret true: one frame is read, classified, overlaid and written
FrameStep ==
    /\ pc = "pv_loop"
    /\ frame_idx < MaxFrames
    /\ LET is_in_labeled_segment == IsInLabeledSegment(start_frame, frame_idx, end_frame)
           frame == [idx |-> frame_idx, overlay |-> is_in_labeled_segment]
       IN /\ frames_read' = Append(frames_read, frame)
          /\ IF FrameIsWritten(clip_only, is_in_labeled_segment)
             THEN /\ written' = Append(written, frame)
                  /\ frames_written' = frames_written + 1
             ELSE UNCHANGED <<written, frames_written>>
    /\ frame_idx' = frame_idx + 1
    /\ UNCHANGED <<LABEL_MAP, clip_only, nrows, rowIdx, row, pc, start_sec, end_sec,
                   label_to_write, fps, start_frame, end_frame, output_video_path,
                   open_handles, out_files, log, outcome>>
    /\ UNCHANGED nameVars

\* lines 89-111: cap.read, cv2.putText or out.write raises; the exception leaves
\* process_video with capture and writer open and is caught at lines 181-182
FrameRaises ==
    /\ pc = "pv_loop"
    /\ Caught("cv2.error", rowIdx, {Handle("cap"), Handle("out")}, log)
    /\ UNCHANGED <<LABEL_MAP, clip_only, nrows, rowIdx, row, start_sec, end_sec,
                   label_to_write, fps, start_frame, end_frame, output_video_path,
                   frame_idx, frames_written, out_files, frames_read, written>>
    /\ UNCHANGED nameVars

\* lines 89-91 with ret false: the source has no more frames
SourceExhausted ==
    /\ pc = "pv_loop"
    /\ pc' = "pv_end"
    /\ UNCHANGED <<LABEL_MAP, clip_only, nrows, rowIdx, row, start_sec, end_sec,
                   label_to_write, fps, start_frame, end_frame, output_video_path,
                   frame_idx, frames_written, open_handles, out_files, log,
                   frames_read, written, outcome>>
    /\ UNCHANGED nameVars

\* lines 115-121
Finish ==
    /\ pc = "pv_end"
    /\ open_handles' = open_handles \ {Handle("cap"), Handle("out")}
    /\ log' = Append(log, FinishLog(frames_written))
    /\ outcome' = "finished"
    /\ pc' = "rows"
    /\ UNCHANGED <<LABEL_MAP, clip_only, nrows, rowIdx, row, start_sec, end_sec,
                   label_to_write, fps, start_frame, end_frame, output_video_path,
                   frame_idx, frames_written, out_files, frames_read, written>>
    /\ UNCHANGED nameVars

Next ==
    \/ SkipColumns \/ SkipConversion \/ SkipTimes \/ CallProcessVideo \/ EndRun
    \/ ResolveStep \/ SourceMissing \/ SourceUnopenable \/ SourceOpened
    \/ WindowRaises \/ WriterUnopenable \/ WriterOpened
    \/ FrameStep \/ FrameRaises \/ SourceExhausted \/ Finish

Spec == Init /\ [][Next]_vars

\* ------------------------------------------- the pure helpers on their own
\* the characters of the strings handed to the sanitizer: a letter, a digit, the
\* three characters it keeps or maps by name, one it replaces, one non-ASCII letter
SanAlphabet == {"a", "7", " ", ".", "_", "-", "U+00E9"}

RECURSIVE StringsUpTo(_)
StringsUpTo(n) ==
    IF n = 0 THEN {<<>>}
    ELSE StringsUpTo(n - 1) \cup
         {Append(x, c) : x \in {y \in StringsUpTo(n - 1) : Len(y) = n - 1}, c \in SanAlphabet}

\* the fields the output name is built from; tag is the resolved label
NameRecs ==
    [base : {<<"a">>, <<"a", "_", "b">>},
     subject : {<<"b">>, <<"c">>, <<"b", " ", "c">>, <<"b", "_", "c">>, <<"b", "/", "c">>},
     cam : {<<"1">>, <<"2">>},
     tag : {ResolveLabel(LabelTable, l).tag : l \in {<<"7">>, <<"9", "9">>}},
     start_sec : {Num(100), Num(104)},
     end_sec : {Num(200), Num(204)}]

NameOf(r) == OutputFilename(r.base, r.subject, r.cam, r.tag, r.start_sec, r.end_sec)

\* the run does not start: only the helper under check acts
RunIdleForHelpers ==
    /\ RunIdle
    /\ clip_only = FALSE
    /\ nrows = 0

SanitizeInit ==
    /\ RunIdleForHelpers
    /\ san_in \in StringsUpTo(MaxLen)
    /\ san_out = <<>> /\ san_twice = <<>>
    /\ rec_a = NoRow /\ rec_b = NoRow /\ path_a = <<>> /\ path_b = <<>>
    /\ applied = FALSE

\* sanitize_filename_component applied to san_in, and to its own result
SanitizeApply ==
    /\ ~applied
    /\ applied' = TRUE
    /\ san_out' = sanitize_filename_component(san_in)
    /\ san_twice' = sanitize_filename_component(sanitize_filename_component(san_in))
    /\ UNCHANGED <<san_in, rec_a, rec_b, path_a, path_b>>
    /\ UNCHANGED runVars

\* the sanitizer alone, on every string of the bounded alphabet
SpecSanitize == SanitizeInit /\ [][SanitizeApply]_vars

NamerInit ==
    /\ RunIdleForHelpers
    /\ san_in = <<>> /\ san_out = <<>> /\ san_twice = <<>>
    /\ rec_a \in NameRecs /\ rec_b \in NameRecs
    /\ path_a = <<>> /\ path_b = <<>>
    /\ applied = FALSE

\* lines 62-68 applied to two records of one run
NamePair ==
    /\ ~applied
    /\ applied' = TRUE
    /\ path_a' = NameOf(rec_a)
    /\ path_b' = NameOf(rec_b)
    /\ UNCHANGED <<san_in, san_out, san_twice, rec_a, rec_b>>
    /\ UNCHANGED runVars

\* the output namer alone, on every pair of records
SpecNamer == NamerInit /\ [][NamePair]_vars

\* ------------------------------------------------------------------ claims
Min(a, b) == IF a <= b THEN a ELSE b
Max(a, b) == IF a >= b THEN a ELSE b

InProcessVideo == pc \in {"pv_start", "pv_exists", "pv_opened", "pv_loop", "pv_end"}

\* the source's last frame index once the loop has ended: frames 0..frame_idx - 1 were read
LastIndex == frame_idx - 1

LastLog == log[Len(log)]

\* C1: in clip-only mode, when the frame loop has ended, the number of frames
\* written is max(0, min(end_frame, lastIndex) - max(start_frame, 0) + 1), and it is
\* 0 when the window lies entirely outside [0, lastIndex].
ClipOnlyCount ==
    (pc = "pv_end" /\ clip_only) =>
        /\ frames_written = Max(0, Min(end_frame, LastIndex) - Max(start_frame, 0) + 1)
        /\ Len(written) = frames_written
        /\ (start_frame > LastIndex \/ end_frame < 0) => frames_written = 0

\* a clip cut out of the middle of a longer source, the window reaching past its end
ClipOnlyCountWitness ==
    /\ pc = "pv_end" /\ clip_only
    /\ frame_idx = 3 /\ start_frame = 1 /\ end_frame > LastIndex
    /\ frames_written = 2

\* C2: in full mode, when the frame loop has ended, the number of frames written is
\* the number of frames the source yielded, whatever the window, and the frames
\* were written in source order, one write per frame read.
FullModeCount ==
    (pc = "pv_end" /\ ~clip_only) =>
        /\ frames_written = frame_idx
        /\ Len(written) = Len(frames_read)
        /\ \A k \in 1..Len(written) : written[k].idx = k - 1

\* a full-mode record whose window lies wholly beyond the source's last frame
FullModeCountWitness ==
    /\ pc = "pv_end" /\ ~clip_only
    /\ frame_idx >= 2 /\ start_frame > LastIndex
    /\ frames_written = frame_idx

\* C3: the overlay is drawn on frame i exactly when start_frame <= i <= end_frame,
\* in either mode; so every frame written in clip-only mode carries the overlay
\* and in full mode exactly the written frames inside the window carry it.
OverlayIffInWindow ==
    /\ \A k \in 1..Len(frames_read) :
          /\ frames_read[k].idx = k - 1
          /\ frames_read[k].overlay <=> (start_frame <= k - 1 /\ k - 1 <= end_frame)
    /\ \A k \in 1..Len(written) :
          /\ written[k].overlay <=>
                (start_frame <= written[k].idx /\ written[k].idx <= end_frame)
          /\ clip_only => written[k].overlay

\* a full-mode record that wrote frames before, inside and after the window
OverlayIffInWindowWitness ==
    /\ pc = "pv_end" /\ ~clip_only
    /\ start_frame > 0 /\ end_frame < LastIndex
    /\ \E k \in 1..Len(written) : written[k].overlay
    /\ \E k \in 1..Len(written) : ~written[k].overlay

\* C4: every handle still open belongs to the record in hand: no capture or writer
\* of an earlier record is open once a later row has been read.
HandlesReleasedBeforeNextRecord ==
    \A h \in open_handles : h.rec = rowIdx

HandedOnlyIfValid ==
    InProcessVideo =>
        /\ row.n = RowFields
        /\ ParseFloat(row.start) # NotAFloat /\ ParseFloat(row.end) # NotAFloat
        /\ FloatGe(ParseFloat(row.start), Num(0))
        /\ FloatGe(ParseFloat(row.end), Num(0))
        /\ FloatGe(ParseFloat(row.end), ParseFloat(row.start))

\* C7 as stated: two records get the same output path only if they agree on
\* every field.
SamePathOnlyIfSameFields ==
    (applied /\ path_a = path_b) => rec_a = rec_b

\* a record none of whose fields is altered or made ambiguous by the naming: no "_"
\* in base, only alphanumerics and "." in subject and camera, a tag the sanitizer
\* keeps, times that one decimal place renders exactly
CleanRec(r) ==
    /\ \A k \in 1..Len(r.base) : r.base[k] # "_"
    /\ \A k \in 1..Len(r.subject) : IsAlnum(r.subject[k]) \/ r.subject[k] = "."
    /\ \A k \in 1..Len(r.cam) : IsAlnum(r.cam[k]) \/ r.cam[k] = "."
    /\ \A k \in 1..Len(r.tag) : IsAlnum(r.tag[k]) \/ r.tag[k] \in {".", "_"}
    /\ r.start_sec.h % 10 = 0 /\ r.end_sec.h % 10 = 0

\* C7 amended: records that agree on every field get the same output path, and
\* two clean records get the same output path only if they agree on every field.
SamePathIffSameFieldsWhenClean ==
    applied =>
        /\ rec_a = rec_b => path_a = path_b
        /\ (CleanRec(rec_a) /\ CleanRec(rec_b) /\ path_a = path_b) => rec_a = rec_b

\* two clean records that differ in the camera alone and got different paths
SamePathIffSameFieldsWitness ==
    /\ applied
    /\ CleanRec(rec_a) /\ CleanRec(rec_b)
    /\ rec_a.cam # rec_b.cam /\ rec_a = [rec_b EXCEPT !.cam = rec_a.cam]
    /\ path_a # path_b

\* C8 as stated: the sanitizer is idempotent and its result has no character
\* outside [A-Za-z0-9_.].
SanitizeIdempotentAsciiSafe ==
    applied =>
        /\ san_twice = san_out
        /\ \A k \in 1..Len(san_out) : san_out[k] \in AsciiSafe

\* C8 amended: the sanitizer is idempotent and its result has only alphanumeric
\* characters (as str.isalnum() has it), "_" and "."; on an input whose
\* alphanumerics are all ASCII the result has no character outside [A-Za-z0-9_.].
SanitizeIdempotentAlnumSafe ==
    applied =>
        /\ san_twice = san_out
        /\ \A k \in 1..Len(san_out) : IsAlnum(san_out[k]) \/ san_out[k] \in {"_", "."}
        /\ (\A k \in 1..Len(san_in) : san_in[k] # "U+00E9") =>
              \A k \in 1..Len(san_out) : san_out[k] \in AsciiSafe

\* a string with a space and a replaced character, sanitized to underscores
SanitizeIdempotentWitness ==
    /\ applied
    /\ \E k \in 1..Len(san_in) : san_in[k] = " " /\ san_out[k] = "_"
    /\ \E k \in 1..Len(san_in) : san_in[k] = "-" /\ san_out[k] = "_"
    /\ san_twice = san_out

\* C9: once process_video has resolved the label, the tag is the table value for
\* a raw label that parses to a code in 0..9, "Unknown_Label_<raw>" with a warning
\* for one that parses to another integer, "Invalid_Label_<raw>" with a warning
\* for one that does not parse; the label table is never modified.
LabelAlwaysResolved ==
    /\ LABEL_MAP = LabelTable
    /\ pc \in {"pv_exists", "pv_opened", "pv_loop", "pv_end"} =>
          /\ (IntParses(row.label) /\ IntValue(row.label) \in 0..9) =>
                label_to_write = LabelTable[IntValue(row.label)]
          /\ (IntParses(row.label) /\ IntValue(row.label) \notin 0..9) =>
                /\ label_to_write = UnknownPrefix \o row.label
                /\ \E k \in 1..Len(log) :
                      log[k].level = "WARNING" /\ log[k].msg = "label_not_in_map"
          /\ ~IntParses(row.label) =>
                /\ label_to_write = InvalidPrefix \o row.label
                /\ \E k \in 1..Len(log) :
                      log[k].level = "WARNING" /\ log[k].msg = "label_not_integer"

\* the raw label "10" resolved to Unknown_Label_10 with its warning logged
LabelAlwaysResolvedWitness ==
    /\ pc = "pv_exists"
    /\ row.label = <<"1", "0">>
    /\ label_to_write = UnknownPrefix \o <<"1", "0">>
    /\ log = <<LogLine("WARNING", "label_not_in_map", 0)>>

\* C10: for a record whose frame loop ended, the no-frames warning is the line
\* logged exactly when no frame was written and the success line is logged
\* otherwise; the empty result is never logged at error level; the output file
\* stays; the run is back at the row loop; in clip-only mode a window wholly beyond
\* the last frame gives the warning.
NoFramesWarned ==
    outcome = "finished" =>
        /\ LastLog = LogLine("WARNING", "no_frames", 0) <=> frames_written = 0
        /\ LastLog = LogLine("INFO", "saved", 0) <=> frames_written > 0
        /\ \A k \in 1..Len(log) : log[k].msg = "no_frames" => log[k].level = "WARNING"
        /\ rowIdx \in out_files
        /\ pc \in {"rows", "done"}
        /\ (clip_only /\ start_frame > LastIndex) => LastLog.msg = "no_frames"

\* a clip-only record of a non-empty source whose window starts past the last frame
NoFramesWarnedWitness ==
    /\ outcome = "finished" /\ pc = "rows"
    /\ clip_only /\ frame_idx > 0 /\ start_frame > LastIndex
    /\ frames_written = 0
    /\ LastLog = LogLine("WARNING", "no_frames", 0)

====
